---------------------------- MODULE Spec2Model ----------------------------
(***************************************************************************)
(* csv2vviz (src/src/main.rs): converts a zip archive of per-drone CSV     *)
(* logs into one "show" document.                                          *)
(*                                                                         *)
(* Text is a tuple of one-character strings, so that the parsing and       *)
(* formatting the program performs are computed, not assumed.              *)
(* An f32 is modelled on the integer-valued single-precision numbers: an   *)
(* integer n with RoundF32(n) = n.  Every f32 operation rounds to nearest, *)
(* ties to even, with a 24-bit significand, as the hardware does.  The     *)
(* quotient by 1000.0 (dt) is not an integer and is kept as a dyadic       *)
(* rational [mant, exp] = mant / 2^exp.                                    *)
(***************************************************************************)
EXTENDS Integers, Sequences, FiniteSets

(***************************************************************************)
(* Bounds of the model.                                                    *)
(***************************************************************************)
\* most entries an archive holds (specification Spec)
MaxEntries == 3
\* most data rows of an entry under Spec
MaxShortRows == 1
\* most data rows of the entry under SpecRows
MaxRows == 3
\* width of usize: TLC's integers are 32-bit, so the model narrows the
\* target's pointer width; the wrapped value is 2^UsizeBits - 1 all the same
UsizeBits == 16

(***************************************************************************)
(* Program constants.                                                      *)
(***************************************************************************)
\* significand bits of f32 (main.rs:12, every f32 of the program)
F32Precision == 24
\* `/ 1000.0` (main.rs:36)
MsPerSecond == 1000

Pow2(n) == 2 ^ n

UsizeMax == Pow2(UsizeBits) - 1

Abs(n) == IF n < 0 THEN -n ELSE n

Front(s) == SubSeq(s, 1, Len(s) - 1)

Last(s) == s[Len(s)]

(***************************************************************************)
(* Decimal text.                                                           *)
(***************************************************************************)
DigitChars == <<"0", "1", "2", "3", "4", "5", "6", "7", "8", "9">>

IsDigit(c) == \E i \in 1..10 : DigitChars[i] = c

DigitVal(c) == (CHOOSE i \in 1..10 : DigitChars[i] = c) - 1

RECURSIVE NatOf(_)
NatOf(s) == IF s = <<>> THEN 0 ELSE 10 * NatOf(Front(s)) + DigitVal(Last(s))

RECURSIVE NatStr(_)
NatStr(n) ==
    IF n < 10 THEN <<DigitChars[n + 1]>>
    ELSE NatStr(n \div 10) \o <<DigitChars[(n % 10) + 1]>>

(***************************************************************************)
(* f32.                                                                    *)
(***************************************************************************)
\* spacing of the f32 numbers at magnitude a (a >= 0), never below 1 here
RECURSIVE Ulp(_)
Ulp(a) == IF a < Pow2(F32Precision) THEN 1 ELSE 2 * Ulp(a \div 2)

\* round-to-nearest, ties-to-even, of the integer n to an f32
RoundF32(n) ==
    LET a == Abs(n)
        s == Ulp(a)
        q == a \div s
        r == a % s
        up == (2 * r > s) \/ (2 * r = s /\ q % 2 = 1)
        m == IF up THEN (q + 1) * s ELSE q * s
    IN  IF n < 0 THEN -m ELSE m

\* the digits of a numeric field, its sign removed
Unsigned(s) == IF s # <<>> /\ s[1] \in {"-", "+"} THEN Tail(s) ELSE s

\* str::parse::<f32> succeeds (the model's fields are integer literals or
\* not numbers at all)
IsF32(s) ==
    /\ Unsigned(s) # <<>>
    /\ \A i \in 1..Len(Unsigned(s)) : IsDigit(Unsigned(s)[i])

\* str::parse::<f32>: the decimal value, correctly rounded
ParseF32(s) ==
    LET v == RoundF32(NatOf(Unsigned(s)))
    IN  IF s[1] = "-" THEN -v ELSE v

\* f32::to_string: the shortest decimal text that parses back to v, which
\* for an integer-valued f32 below 2^25 is its exact decimal expansion
F32ToString(v) == IF v < 0 THEN <<"-">> \o NatStr(-v) ELSE NatStr(v)

\* f32 subtraction
SubF32(a, b) == RoundF32(a - b)

\* f32 addition
AddF32(a, b) == RoundF32(a + b)

\* a dyadic rational in lowest terms
RECURSIVE Normalize(_, _)
Normalize(m, e) ==
    IF e > 0 /\ m % 2 = 0 THEN Normalize(m \div 2, e - 1)
    ELSE [mant |-> m, exp |-> e]

\* a * 2^e = MsPerSecond * q + r: shift until q has 24 bits or the
\* quotient is exact, then round to nearest, ties to even
RECURSIVE LongDiv(_, _, _)
LongDiv(q, r, e) ==
    IF r = 0 THEN Normalize(q, e)
    ELSE IF q >= Pow2(F32Precision - 1)
    THEN LET up == (2 * r > MsPerSecond) \/ (2 * r = MsPerSecond /\ q % 2 = 1)
         IN  Normalize(IF up THEN q + 1 ELSE q, e)
    ELSE LongDiv(2 * q + (IF 2 * r >= MsPerSecond THEN 1 ELSE 0),
                 (2 * r) % MsPerSecond, e + 1)

\* f32 division n / 1000.0
DivF32(n) ==
    LET d == LongDiv(Abs(n) \div MsPerSecond, Abs(n) % MsPerSecond, 0)
    IN  IF n < 0 THEN [mant |-> -d.mant, exp |-> d.exp] ELSE d

(***************************************************************************)
(* Option<T>.                                                              *)
(***************************************************************************)
None == [some |-> FALSE]

Some(v) == [some |-> TRUE, val |-> v]

(***************************************************************************)
(* The inputs the model draws from: entry names, CSV rows, transforms.     *)
(* A row is [timestamp_ms, x, z, y, r, g, b].                              *)
(***************************************************************************)
Drone1 == <<"D", "r", "o", "n", "e", " ", "1">>

Drone3 == <<"D", "r", "o", "n", "e", " ", "3">>

Drone0 == <<"D", "r", "o", "n", "e", " ", "0">>

\* a leading zero: the same number as Drone1
Drone01 == <<"D", "r", "o", "n", "e", " ", "0", "1">>

\* text after the digit run: the same number as Drone1
Drone1Csv == <<"D", "r", "o", "n", "e", " ", "1", ".", "c", "s", "v">>

\* a digit run no usize of UsizeBits + 1 bits holds
DroneHuge == <<"D", "r", "o", "n", "e", " ", "9", "9", "9", "9", "9", "9">>

\* whitespace that is not the space of the pattern
DroneTab == <<"D", "r", "o", "n", "e", "\t", "2">>

Sensor1 == <<"S", "e", "n", "s", "o", "r", " ", "1">>

Names == {Drone1, Drone3, Drone0, Drone01, Drone1Csv, DroneHuge, DroneTab, Sensor1}

RowsNames == {Drone3, Sensor1}

Header == <<<<"t">>, <<"x">>, <<"z">>, <<"y">>, <<"r">>, <<"g">>, <<"b">>>>

RowA == <<<<"0">>, <<"1">>, <<"2">>, <<"3">>, <<"2", "5", "5">>, <<"0">>, <<"0">>>>

RowB == <<<<"1", "0", "0", "0">>, <<"4">>, <<"6">>, <<"5">>, <<"0">>, <<"2", "5", "5">>, <<"0">>>>

\* x is an f32 whose distance to RowA's x is not one; z is a decimal no
\* f32 equals; y is negative with a leading zero
RowC == <<<<"1", "0", "4", "0">>, <<"1", "6", "7", "7", "7", "2", "1", "8">>,
          <<"1", "6", "7", "7", "7", "2", "1", "7">>, <<"-", "0", "7">>,
          <<"0">>, <<"0">>, <<"2", "5", "5">>>>

\* x is not a number
RowBadX == <<<<"2", "0", "0", "0">>, <<"x">>, <<"2">>, <<"3">>, <<"0">>, <<"0">>, <<"0">>>>

\* the timestamp is not a number
RowBadT == <<<<"t">>, <<"1">>, <<"2">>, <<"3">>, <<"0">>, <<"0">>, <<"0">>>>

\* six fields under a header of seven
RowShort == <<<<"3", "0", "0", "0">>, <<"1">>, <<"2">>, <<"3">>, <<"0">>, <<"0">>>>

ShortRowSet == {RowA, RowBadX, RowShort}

LongRowSet == {RowA, RowB, RowC, RowBadX, RowBadT}

SeqsUpTo(S, n) == UNION {[1..k -> S] : k \in 0..n}

\* an entry's content: an empty file, or a header and its data rows
Contents(S, n) == {<<>>} \cup {<<Header>> \o rows : rows \in SeqsUpTo(S, n)}

\* Euler angles in degrees (--rotate), quarter turns only
Rotations == {[x |-> 90, y |-> 0, z |-> 0], [x |-> 0, y |-> 0, z |-> 180]}

\* offsets (--translate)
Translations == {[x |-> 10, y |-> 20, z |-> 30]}

(***************************************************************************)
(* The transform of one point.  euclid's Rotation3D is not part of the     *)
(* repository: a rotation by quarter turns is modelled as the exact        *)
(* rotation of the lattice it is, roll, pitch, yaw in that order.          *)
(***************************************************************************)
RECURSIVE TurnX(_, _)
TurnX(p, n) == IF n = 0 THEN p ELSE TurnX([x |-> p.x, y |-> -p.z, z |-> p.y], n - 1)

RECURSIVE TurnY(_, _)
TurnY(p, n) == IF n = 0 THEN p ELSE TurnY([x |-> p.z, y |-> p.y, z |-> -p.x], n - 1)

RECURSIVE TurnZ(_, _)
TurnZ(p, n) == IF n = 0 THEN p ELSE TurnZ([x |-> -p.y, y |-> p.x, z |-> p.z], n - 1)

RotatePoint(rot, p) ==
    TurnZ(TurnY(TurnX(p, rot.x \div 90), rot.y \div 90), rot.z \div 90)

TranslatePoint(trans, p) ==
    [x |-> AddF32(p.x, trans.x), y |-> AddF32(p.y, trans.y), z |-> AddF32(p.z, trans.z)]

\* a plausible slip: the translation applied before the rotation
TransformPointTranslateFirst(rot, trans, p) ==
    LET moved == IF trans.some THEN TranslatePoint(trans.val, p) ELSE p
    IN  IF rot.some THEN RotatePoint(rot.val, moved) ELSE moved

TransformPoint(rot, trans, p) ==
    LET turned == IF rot.some THEN RotatePoint(rot.val, p) ELSE p
    IN  IF trans.some THEN TranslatePoint(trans.val, turned) ELSE turned

\* the closure of raw_records.iter().map: columns 1, 3, 2 make the point
\* (x, y, z), which is written back as x, z, y
TransformRecord(rot, trans, record) ==
    LET point == TransformPoint(rot, trans,
                     [x |-> ParseF32(record[2]),
                      y |-> ParseF32(record[4]),
                      z |-> ParseF32(record[3])])
    IN  <<record[1], F32ToString(point.x), F32ToString(point.z),
          F32ToString(point.y), record[5], record[6], record[7]>>

\* the closure panics: a position field is no f32, or a field is missing
RecordPanics(record) ==
    \/ Len(record) < 7
    \/ ~IsF32(record[2])
    \/ ~IsF32(record[4])
    \/ ~IsF32(record[3])

\* csv::Reader (headers on, not flexible): a record whose field count is
\* not the header's is an error, which x.unwrap() turns into a panic
CsvPanics(lines) == \E i \in 2..Len(lines) : Len(lines[i]) # Len(lines[1])

\* csv_reader.records(): the lines after the header
CsvRecords(lines) == IF lines = <<>> THEN <<>> ELSE Tail(lines)

(***************************************************************************)
(* The deltas of one agent.                                                *)
(***************************************************************************)
\* a plausible slip: dy and dz read from each other's column
AgentTraversalSwapped(cur, prev) ==
    [dt |-> Some(DivF32(SubF32(ParseF32(cur[1]), ParseF32(prev[1])))),
     dx |-> SubF32(ParseF32(cur[2]), ParseF32(prev[2])),
     dy |-> SubF32(ParseF32(cur[3]), ParseF32(prev[3])),
     dz |-> SubF32(ParseF32(cur[4]), ParseF32(prev[4]))]

AgentTraversal(cur, prev) ==
    [dt |-> Some(DivF32(SubF32(ParseF32(cur[1]), ParseF32(prev[1])))),
     dx |-> SubF32(ParseF32(cur[2]), ParseF32(prev[2])),
     dy |-> SubF32(ParseF32(cur[4]), ParseF32(prev[4])),
     dz |-> SubF32(ParseF32(cur[3]), ParseF32(prev[3]))]

\* a plausible slip: the first record pushed as a traversal of its own
\* (the block the source keeps commented out)
AgentTraversalsWithFirst(records) ==
    <<[dt |-> None,
       dx |-> ParseF32(records[1][2]),
       dy |-> ParseF32(records[1][4]),
       dz |-> ParseF32(records[1][3])]>>
    \o [i \in 1..(Len(records) - 1) |-> AgentTraversal(records[i + 1], records[i])]

\* records.iter().skip(1).zip(records.iter())
AgentTraversals(records) ==
    [i \in 1..(Len(records) - 1) |-> AgentTraversal(records[i + 1], records[i])]

\* a timestamp of a pair is no f32: unwrap panics.  A single record is
\* never paired, and its timestamp never parsed.
TraversalsPanic(records) ==
    /\ Len(records) >= 2
    /\ \E i \in 1..Len(records) : ~IsF32(records[i][1])

(***************************************************************************)
(* The identity of an entry.                                               *)
(***************************************************************************)
DronePrefix == <<"D", "r", "o", "n", "e", " ">>

RECURSIVE DigitRun(_, _)
DigitRun(s, i) ==
    IF i <= Len(s) /\ IsDigit(s[i]) THEN <<s[i]>> \o DigitRun(s, i + 1) ELSE <<>>

RECURSIVE FirstDigit(_, _)
FirstDigit(s, i) ==
    IF i > Len(s) \/ IsDigit(s[i]) THEN i ELSE FirstDigit(s, i + 1)

\* a plausible slip: the pattern (\d+), not anchored to "Drone "
NameCapturesUnanchored(name) == DigitRun(name, FirstDigit(name, 1))

\* Regex ^Drone (\d+): group 1, or <<>> when the name does not match
NameCaptures(name) ==
    IF Len(name) > Len(DronePrefix) /\ SubSeq(name, 1, Len(DronePrefix)) = DronePrefix
    THEN DigitRun(name, Len(DronePrefix) + 1)
    ELSE <<>>

\* str::parse::<usize>: the value, or -1 when it overflows
RECURSIVE ParseUsize(_)
ParseUsize(s) ==
    IF s = <<>> THEN 0
    ELSE LET hi == ParseUsize(Front(s))
             v == 10 * hi + DigitVal(Last(s))
         IN  IF hi < 0 \/ v > UsizeMax THEN -1 ELSE v

\* a plausible slip: saturating_sub
SaturatingSubOne(drone_id, checks) ==
    Some(IF drone_id = 0 THEN 0 ELSE drone_id - 1)

\* drone_id - 1 on usize: with overflow checks (a debug build) 0 - 1
\* panics, without them (a release build) it wraps
SubOne(drone_id, checks) ==
    IF drone_id > 0 THEN Some(drone_id - 1)
    ELSE IF checks THEN None
    ELSE Some(UsizeMax)

\* a plausible slip: a default home when there is no record
FirstRecordOrDefault(records) ==
    IF records = <<>> THEN Some(RowA) ELSE Some(records[1])

\* records[0]: indexing an empty Vec panics
FirstRecord(records) ==
    IF records = <<>> THEN None ELSE Some(records[1])

(***************************************************************************)
(* The show.                                                               *)
(***************************************************************************)
\* the position after the last performance whose id is not above p's
RECURSIVE InsertById(_, _)
InsertById(sorted, p) ==
    IF sorted = <<>> \/ Last(sorted).id <= p.id THEN Append(sorted, p)
    ELSE Append(InsertById(Front(sorted), p), Last(sorted))

\* a plausible slip: no sort
Unsorted(performances) == performances

\* sort_by_cached_key(|p| p.id): a stable sort
RECURSIVE SortById(_)
SortById(performances) ==
    IF performances = <<>> THEN <<>>
    ELSE InsertById(SortById(Front(performances)), Last(performances))

EmptyShow ==
    [version |-> "1.0", default_position_rate |-> 4, default_color_rate |-> 4,
     performances |-> <<>>]

\* serde's view of an AgentTraversal: dt is skipped when it is None
TraversalJson(t) ==
    IF t.dt.some THEN [dx |-> t.dx, dy |-> t.dy, dz |-> t.dz, dt |-> t.dt.val]
    ELSE [dx |-> t.dx, dy |-> t.dy, dz |-> t.dz]

PerformanceJson(p) ==
    [id |-> p.id,
     agentDescription |->
        [homeX |-> p.description.home_x,
         homeY |-> p.description.home_y,
         homeZ |-> p.description.home_z,
         agentTraversal |->
            [i \in 1..Len(p.description.traversals) |->
                TraversalJson(p.description.traversals[i])]],
     payloadDescription |-> p.payload]

\* serde_json::to_string(&show), as the document it denotes
ShowJson(s) ==
    [version |-> s.version,
     defaultPositionRate |-> s.default_position_rate,
     defaultColorRate |-> s.default_color_rate,
     performances |->
        [i \in 1..Len(s.performances) |-> PerformanceJson(s.performances[i])]]

(***************************************************************************)
(* State.                                                                  *)
(***************************************************************************)
VARIABLES
    archive_len,      \* the number of entries of the archive
    rotation,         \* Option: the --rotate angles
    translation,      \* Option: the --translate offsets
    overflow_checks,  \* the build panics on integer overflow (debug)
    pc,               \* where csv2vviz is
    file_index,
    file,             \* the entry by_index returned
    records,          \* its transformed records
    show,
    vviz_file,        \* the output file on disk
    visited           \* history: the entries by_index has returned

vars == <<archive_len, rotation, translation, overflow_checks, pc, file_index,
          file, records, show, vviz_file, visited>>

NoFile == [name |-> <<>>, lines |-> <<>>]

NoOutput == [exists |-> FALSE, content |-> "none", document |-> <<>>]

InitWith(lens, rots, transs) ==
    /\ archive_len \in lens
    /\ rotation \in rots
    /\ translation \in transs
    /\ overflow_checks \in BOOLEAN
    /\ pc = "open"
    /\ file_index = 0
    /\ file = NoFile
    /\ records = <<>>
    /\ show = EmptyShow
    /\ vviz_file = NoOutput
    /\ visited = <<>>

\* an archive of up to MaxEntries entries, no transform
Init == InitWith(0..MaxEntries, {None}, {None})

\* an archive of one entry, every combination of the transforms
InitRows ==
    InitWith({1}, {None} \cup {Some(r) : r \in Rotations},
             {None} \cup {Some(t) : t \in Translations})

Panic ==
    /\ pc' = "panicked"
    /\ UNCHANGED <<archive_len, rotation, translation, overflow_checks,
                   file_index, file, records, show, vviz_file, visited>>

\* File::open and ZipArchive::new, each of which may fail (expect)
OpenArchive ==
    /\ pc = "open"
    /\ \/ /\ pc' = "loop"
          /\ UNCHANGED <<archive_len, rotation, translation, overflow_checks,
                         file_index, file, records, show, vviz_file, visited>>
       \/ Panic

\* while let Ok(mut file) = archive.by_index(file_index): the next entry,
\* under a name no earlier entry of the archive has
ByIndexOk(names, contents) ==
    /\ pc = "loop"
    /\ file_index < archive_len
    /\ \E name \in names, lines \in contents :
          /\ \A i \in 1..Len(visited) : visited[i].name # name
          /\ file' = [name |-> name, lines |-> lines]
          /\ visited' = Append(visited, file')
    /\ pc' = "body"
    /\ UNCHANGED <<archive_len, rotation, translation, overflow_checks,
                   file_index, records, show, vviz_file>>

\* by_index returns Err(FileNotFound) past the last entry: the loop ends
ByIndexEnd ==
    /\ pc = "loop"
    /\ file_index >= archive_len
    /\ pc' = "create"
    /\ UNCHANGED <<archive_len, rotation, translation, overflow_checks,
                   file_index, file, records, show, vviz_file, visited>>

\* by_index returns Err for an entry the archive holds (an I/O error, a
\* damaged or unsupported entry): `while let Ok` ends the loop all the same
ByIndexReadError ==
    /\ pc = "loop"
    /\ file_index < archive_len
    /\ pc' = "create"
    /\ UNCHANGED <<archive_len, rotation, translation, overflow_checks,
                   file_index, file, records, show, vviz_file, visited>>

\* raw_records and records: parse the entry, transform every record
ReadRecords ==
    /\ pc = "body"
    /\ LET raw_records == CsvRecords(file.lines)
       IN  IF \/ CsvPanics(file.lines)
              \/ \E i \in 1..Len(raw_records) : RecordPanics(raw_records[i])
           THEN Panic
           ELSE /\ records' = [i \in 1..Len(raw_records) |->
                                  TransformRecord(rotation, translation, raw_records[i])]
                /\ pc' = "push"
                /\ UNCHANGED <<archive_len, rotation, translation, overflow_checks,
                               file_index, file, show, vviz_file, visited>>

\* the Performance of the entry, None when building it panics
NewPerformance ==
    LET capture == NameCaptures(file.name)
        drone_id == ParseUsize(capture)
        id == SubOne(drone_id, overflow_checks)
        first == FirstRecord(records)
    IN  IF \/ capture = <<>>
           \/ drone_id < 0
           \/ ~id.some
           \/ ~first.some
           \/ TraversalsPanic(records)
        THEN None
        ELSE Some([id |-> id.val,
                   description |->
                      [home_x |-> ParseF32(first.val[2]),
                       home_y |-> ParseF32(first.val[4]),
                       home_z |-> ParseF32(first.val[3]),
                       traversals |-> AgentTraversals(records)],
                   payload |-> <<>>])

\* the rest of the loop body: identity, push, sort, file_index += 1
PushPerformance ==
    /\ pc = "push"
    /\ IF ~NewPerformance.some
       THEN Panic
       ELSE /\ show' = [show EXCEPT !.performances =
                            SortById(Append(@, NewPerformance.val))]
            /\ file_index' = file_index + 1
            /\ file' = NoFile
            /\ records' = <<>>
            /\ pc' = "loop"
            /\ UNCHANGED <<archive_len, rotation, translation, overflow_checks,
                           vviz_file, visited>>

\* File::create(new_file): the file exists, empty, from here on
CreateFile ==
    /\ pc = "create"
    /\ \/ /\ vviz_file' = [exists |-> TRUE, content |-> "empty", document |-> <<>>]
          /\ pc' = "write"
          /\ UNCHANGED <<archive_len, rotation, translation, overflow_checks,
                         file_index, file, records, show, visited>>
       \/ Panic

\* write_all(to_string(&show)): all of the document, or an error after
\* none or some of it
WriteAll ==
    /\ pc = "write"
    /\ \/ /\ vviz_file' = [exists |-> TRUE, content |-> "complete",
                           document |-> ShowJson(show)]
          /\ pc' = "done"
       \/ /\ \E content \in {"empty", "partial"} :
                vviz_file' = [vviz_file EXCEPT !.content = content]
          /\ pc' = "panicked"
    /\ UNCHANGED <<archive_len, rotation, translation, overflow_checks,
                   file_index, file, records, show, visited>>

Next ==
    \/ OpenArchive
    \/ ByIndexOk(Names, Contents(ShortRowSet, MaxShortRows))
    \/ ByIndexEnd
    \/ ByIndexReadError
    \/ ReadRecords
    \/ PushPerformance
    \/ CreateFile
    \/ WriteAll

NextRows ==
    \/ OpenArchive
    \/ ByIndexOk(RowsNames, Contents(LongRowSet, MaxRows))
    \/ ByIndexEnd
    \/ ByIndexReadError
    \/ ReadRecords
    \/ PushPerformance
    \/ CreateFile
    \/ WriteAll

Spec == Init /\ [][Next]_vars

SpecRows == InitRows /\ [][NextRows]_vars

(***************************************************************************)
(* Properties.                                                             *)
(***************************************************************************)
RemoveAt(s, i) == SubSeq(s, 1, i - 1) \o SubSeq(s, i + 1, Len(s))

RECURSIVE SumSeq(_)
SumSeq(s) == IF s = <<>> THEN 0 ELSE SumSeq(Front(s)) + Last(s)

\* the step that completes one pass of the loop body
Pushed == pc = "push" /\ pc' = "loop"

\* the number an entry name carries, read off its digits
NumberOf(name) == NatOf(NameCaptures(name))

\* the names of the entries by_index has returned
VisitedNames == [i \in 1..Len(visited) |-> visited[i].name]

\* the names of the entries whose Performance has been pushed
Processed == SubSeq(VisitedNames, 1, file_index)

\* the loop has been left for the writing of the document
LoopLeft == pc \in {"create", "write", "done"} \/ vviz_file.exists

SortedById(performances) ==
    \A i, j \in 1..Len(performances) :
        i < j => performances[i].id <= performances[j].id

DistinctIds(performances) ==
    \A i, j \in 1..Len(performances) :
        i < j => performances[i].id # performances[j].id

Written == vviz_file.content = "complete"

\* C1: after every push + sort step, and in the document that is written,
\* the performances are in ascending order of id, and each id occurs as
\* often as among the entries processed so far: the order of the ids is
\* fixed by the entries, whatever order they were visited in.
C1_SortedById ==
    /\ SortedById(show.performances)
    /\ Len(show.performances) = file_index
    /\ \A n \in {NumberOf(Processed[i]) : i \in 1..file_index} :
          Cardinality({i \in 1..file_index : NumberOf(Processed[i]) = n})
            = Cardinality({i \in 1..file_index :
                  show.performances[i].id = (IF n = 0 THEN UsizeMax ELSE n - 1)})
    /\ Written => /\ SortedById(vviz_file.document.performances)
                  /\ Len(vviz_file.document.performances) = file_index

\* "Drone 3" visited before "Drone 1", and the document lists ids 0, 2
C1_Witness ==
    /\ Written
    /\ VisitedNames = <<Drone3, Drone1>>
    /\ Len(vviz_file.document.performances) = 2
    /\ vviz_file.document.performances[1].id = 0
    /\ vviz_file.document.performances[2].id = 2

\* the Performance p is what the loop body makes of the records
C2_Built(p, rows, recs) ==
    /\ Len(rows) >= 1
    /\ Len(recs) = Len(rows)
    /\ Len(p.description.traversals) = Len(rows) - 1
    /\ p.description.home_x = ParseF32(recs[1][2])
    /\ p.description.home_y = ParseF32(recs[1][4])
    /\ p.description.home_z = ParseF32(recs[1][3])
    /\ \A k \in 1..(Len(recs) - 1) :
          LET t == p.description.traversals[k]
          IN  /\ t.dx = RoundF32(ParseF32(recs[k + 1][2]) - ParseF32(recs[k][2]))
              /\ t.dy = RoundF32(ParseF32(recs[k + 1][4]) - ParseF32(recs[k][4]))
              /\ t.dz = RoundF32(ParseF32(recs[k + 1][3]) - ParseF32(recs[k][3]))
              /\ t.dt.some

\* C2: the Performance pushed for an entry of N >= 1 data rows has N - 1
\* traversals, the k-th the delta between transformed rows k and k + 1,
\* and its home is the first transformed row's columns 1, 3, 2.
C2_TraversalCount ==
    [][Pushed =>
        \E i \in 1..Len(show'.performances) :
            /\ RemoveAt(show'.performances, i) = show.performances
            /\ C2_Built(show'.performances[i], CsvRecords(file.lines), records)]_vars

\* three rows went in, two traversals came out
C2_Witness ==
    /\ pc = "loop"
    /\ file_index = 1
    /\ Len(show.performances) = 1
    /\ Len(show.performances[1].description.traversals) = 2

\* C3: the document is persisted only once every entry of the archive has
\* been appended to the show, and a run that aborts leaves no output file
\* holding an empty or a partial document.
C3_NoPartialOutput ==
    /\ Written => Len(show.performances) = archive_len
    /\ pc = "panicked" => ~(vviz_file.exists /\ vviz_file.content \in {"empty", "partial"})

\* C4: a run ends with its document written only when the reader has
\* returned every entry of the archive: a reader that fails below the
\* entry count aborts the run instead.
C4_ReadErrorAborts ==
    (pc = "done" \/ Written) => file_index >= archive_len

\* "Drone", whitespace, digits, at the start of the name
C5_Pattern(name) ==
    /\ Len(name) >= 7
    /\ SubSeq(name, 1, 5) = <<"D", "r", "o", "n", "e">>
    /\ name[6] \in {" ", "\t"}
    /\ IsDigit(name[7])

\* while the entry in hand is one of `bad`, the loop body either goes on
\* to its next statement or panics, and panics at the latest where the
\* Performance is built; nothing is pushed, the index stays, no file exists
EntryAborts(bad) ==
    (pc \in {"body", "push"} /\ bad) =>
        /\ pc' \in (IF pc = "body" THEN {"push", "panicked"} ELSE {"panicked"})
        /\ show' = show
        /\ file_index' = file_index
        /\ file' = file
        /\ vviz_file' = NoOutput

\* C5: an entry whose name does not match the pattern aborts the run at
\* that entry: it is not skipped, nothing is pushed for it, and after the
\* panic no step is taken (no later entry, no document); so the loop is
\* never left, and no file created, after such an entry was returned.
C5_BadNameAborts ==
    /\ [][EntryAborts(~C5_Pattern(file.name))]_vars
    /\ [][pc # "panicked"]_vars
    /\ [](LoopLeft => \A i \in 1..Len(visited) : C5_Pattern(visited[i].name))

\* "Sensor 1" with a well-formed row: the panic is the name's
C5_Witness ==
    /\ pc = "panicked"
    /\ file = [name |-> Sensor1, lines |-> <<Header, RowA>>]
    /\ records # <<>>
    /\ file_index = Len(show.performances)
    /\ ~vviz_file.exists

\* C6 as claimed: whenever every name matched, the written document holds
\* no two performances of the same id.
C6_UniqueIds ==
    (Written /\ \A i \in 1..Len(visited) : NameCaptures(visited[i].name) # <<>>)
        => DistinctIds(vviz_file.document.performances)

\* C6, amended: when the digit runs of the processed entries denote
\* pairwise different numbers, no two performances share an id, in the
\* show and in the written document.
C6_UniqueWhenNumbersDiffer ==
    (\A i, j \in 1..file_index : i < j => NumberOf(Processed[i]) # NumberOf(Processed[j]))
        => /\ DistinctIds(show.performances)
           /\ Written => DistinctIds(vviz_file.document.performances)

\* "Drone 0" and "Drone 1" in a release build: ids 0 and 2^w - 1
C6_Witness ==
    /\ Written
    /\ VisitedNames = <<Drone0, Drone1>>
    /\ Len(vviz_file.document.performances) = 2
    /\ DistinctIds(vviz_file.document.performances)

\* C7: an entry of a header and no data row aborts the run while it is
\* processed: nothing is pushed for it and no document is written; so the
\* loop is never left, and no file created, after such an entry was
\* returned.
C7_EmptyEntryAborts ==
    /\ [][EntryAborts(Len(file.lines) = 1)]_vars
    /\ [][pc # "panicked"]_vars
    /\ [](LoopLeft => \A i \in 1..Len(visited) : Len(visited[i].lines) # 1)

\* "Drone 1" with a header only: the panic is records[0]
C7_Witness ==
    /\ pc = "panicked"
    /\ file = [name |-> Drone1, lines |-> <<Header>>]
    /\ file_index = Len(show.performances)
    /\ ~vviz_file.exists

Traversals(p) == p.description.traversals

\* the exact sum of the dt, as an integer part and a numerator over 2^K,
\* times 1000, is d (the fractions are added over their common
\* denominator; 1000 * FR / 2^K = D has 125 divide D)
DtSumIs(ts, d) ==
    LET dts == [k \in 1..Len(ts) |-> ts[k].dt.val]
        K == IF dts = <<>> THEN 0
             ELSE CHOOSE e \in {dts[k].exp : k \in 1..Len(dts)} :
                      \A k \in 1..Len(dts) : dts[k].exp <= e
        IP == SumSeq([k \in 1..Len(dts) |-> dts[k].mant \div Pow2(dts[k].exp)])
        FR == SumSeq([k \in 1..Len(dts) |->
                  (dts[k].mant % Pow2(dts[k].exp)) * Pow2(K - dts[k].exp)])
        D == d - MsPerSecond * IP
    IN  IF K <= 3 THEN MsPerSecond * FR = D * Pow2(K)
        ELSE /\ Abs(D) <= MsPerSecond * Len(dts)
             /\ D % 125 = 0
             /\ FR = (D \div 125) * Pow2(K - 3)

C8_Exact(p, recs) ==
    LET ts == Traversals(p)
        first == recs[1]
        last == recs[Len(recs)]
    IN  /\ p.description.home_x + SumSeq([k \in 1..Len(ts) |-> ts[k].dx]) = ParseF32(last[2])
        /\ p.description.home_y + SumSeq([k \in 1..Len(ts) |-> ts[k].dy]) = ParseF32(last[4])
        /\ p.description.home_z + SumSeq([k \in 1..Len(ts) |-> ts[k].dz]) = ParseF32(last[3])
        /\ Len(recs) > 1 => DtSumIs(ts, ParseF32(last[1]) - ParseF32(first[1]))

Slack(d) == IF RoundF32(d) = d THEN 0 ELSE Ulp(Abs(d))

\* the number of bits of m > 0
RECURSIVE Bits(_)
Bits(m) == IF m = 0 THEN 0 ELSE 1 + Bits(m \div 2)

\* dt is n / 1000 when that is an f32, else within half a unit in the last
\* place of it: with M the 24-bit significand and E its exponent,
\* |M / 2^E - n / 1000| <= 1 / 2^(E+1)
DtNearest(dt, n) ==
    IF n % 125 = 0
    THEN dt.exp <= 3 /\ MsPerSecond * dt.mant = n * Pow2(dt.exp)
    ELSE LET b == Bits(Abs(dt.mant))
             M == Abs(dt.mant) * Pow2(F32Precision - b)
             E == dt.exp + F32Precision - b
         IN  /\ b <= F32Precision
             /\ E >= 3
             /\ (dt.mant < 0) = (n < 0)
             /\ 2 * Abs(125 * M - Abs(n) * Pow2(E - 3)) <= 125

C8_Column(home, ts, recs, col) ==
    LET pos == [k \in 1..Len(recs) |-> ParseF32(recs[k][col])]
        err == home + SumSeq(ts) - pos[Len(recs)]
    IN  2 * Abs(err) <= SumSeq([k \in 1..(Len(recs) - 1) |-> Slack(pos[k + 1] - pos[k])])

C8_Rounded(p, recs) ==
    LET ts == Traversals(p)
        time == [k \in 1..Len(recs) |->
                    IF Len(recs) > 1 THEN ParseF32(recs[k][1]) ELSE 0]
    IN  /\ Len(ts) = Len(recs) - 1
        /\ C8_Column(p.description.home_x, [k \in 1..Len(ts) |-> ts[k].dx], recs, 2)
        /\ C8_Column(p.description.home_y, [k \in 1..Len(ts) |-> ts[k].dy], recs, 4)
        /\ C8_Column(p.description.home_z, [k \in 1..Len(ts) |-> ts[k].dz], recs, 3)
        /\ \A k \in 1..Len(ts) : DtNearest(ts[k].dt.val, RoundF32(time[k + 1] - time[k]))
        /\ (\A k \in 1..Len(ts) : (time[k + 1] - time[k]) % 125 = 0)
              => DtSumIs(ts, time[Len(recs)] - time[1])

C9_TransformedRecord ==
    pc = "push" =>
        LET raw == CsvRecords(file.lines)
        IN  /\ Len(records) = Len(raw)
            /\ \A i \in 1..Len(raw) :
                  LET in == raw[i]
                      out == records[i]
                      p0 == [x |-> ParseF32(in[2]), y |-> ParseF32(in[4]), z |-> ParseF32(in[3])]
                      p1 == IF rotation.some THEN RotatePoint(rotation.val, p0) ELSE p0
                      p2 == IF translation.some THEN TranslatePoint(translation.val, p1) ELSE p1
                  IN  /\ Len(out) = 7
                      /\ out[1] = in[1]
                      /\ out[5] = in[5] /\ out[6] = in[6] /\ out[7] = in[7]
                      /\ IsF32(out[2]) /\ IsF32(out[3]) /\ IsF32(out[4])
                      /\ ParseF32(out[2]) = p2.x
                      /\ ParseF32(out[3]) = p2.z
                      /\ ParseF32(out[4]) = p2.y
                      /\ (~rotation.some /\ ~translation.some) =>
                            /\ ParseF32(out[2]) = ParseF32(in[2])
                            /\ ParseF32(out[3]) = ParseF32(in[3])
                            /\ ParseF32(out[4]) = ParseF32(in[4])

\* RowA = (1, 3, 2) turned a quarter about x to (1, -2, 3), then moved by
\* (10, 20, 30) to (11, 18, 33), written back as x = 11, z = 33, y = 18
C9_Witness ==
    /\ pc = "push"
    /\ rotation = Some([x |-> 90, y |-> 0, z |-> 0])
    /\ translation.some
    /\ file.lines = <<Header, RowA>>
    /\ records = <<<<RowA[1], <<"1", "1">>, <<"3", "3">>, <<"1", "8">>,
                     RowA[5], RowA[6], RowA[7]>>>>

\* C10: the Performance pushed for an entry named with the digit run N has
\* the id N - 1, a non-negative integer, and no written document holds the
\* wrapped-around id 2^w - 1.
C10_IdIsNumberMinusOne ==
    /\ [][Pushed =>
            \E i \in 1..Len(show'.performances) :
                /\ RemoveAt(show'.performances, i) = show.performances
                /\ show'.performances[i].id = NumberOf(file.name) - 1
                /\ show'.performances[i].id >= 0]_vars
    /\ [](Written => \A i \in 1..Len(vviz_file.document.performances) :
                        vviz_file.document.performances[i].id # UsizeMax)

=============================================================================
